---- MODULE Spec2Model ----
(***************************************************************************)
(* Model of src/index_builder.py: class IndexBuilder.                      *)
(*                                                                         *)
(* Strings are sequences of one-character strings, so that tokenize can be *)
(* modelled character by character.  A decoded JSON value is a record      *)
(* [tag, s, n]; tag says which of s (a string) and n (a number) is meant.  *)
(* mean_mark is kept in hundredths (400 stands for 4.0): round(x, 2) has   *)
(* two decimals.                                                           *)
(***************************************************************************)
EXTENDS Integers, Sequences, FiniteSets, TLC

(***************************************************************************)
(* Bounds of the model.                                                    *)
(***************************************************************************)
MaxRecords == 1
MaxLines == 2
MaxBatch == 3
MaxWords == 2
MaxReviews == 3
MaxRating == 2

(***************************************************************************)
(* Generic helpers.                                                        *)
(***************************************************************************)
EmptyMap == [x \in {} |-> 0]

Put(f, k, v) == [x \in (DOMAIN f) \cup {k} |-> IF x = k THEN v ELSE f[x]]

SeqsUpTo(S, n) == UNION {[1..k -> S] : k \in 0..n}

Range(s) == {s[i] : i \in DOMAIN s}

RECURSIVE SumSeq(_)
SumSeq(s) == IF s = <<>> THEN 0 ELSE Head(s) + SumSeq(Tail(s))

Perms(n) == {p \in [1..n -> 1..n] : \A i, j \in 1..n : p[i] = p[j] => i = j}

(***************************************************************************)
(* Decoded JSON values.                                                    *)
(***************************************************************************)
Absent == [tag |-> "absent", s |-> <<>>, n |-> 0]
Null == [tag |-> "null", s |-> <<>>, n |-> 0]
Str(s) == [tag |-> "str", s |-> s, n |-> 0]
Num(n) == [tag |-> "num", s |-> <<>>, n |-> n]

\* Python truth value of a decoded value ("if url:", "if title:", ...)
Truthy(v) ==
    CASE v.tag = "str" -> v.s # <<>>
      [] v.tag = "num" -> v.n # 0
      [] OTHER -> FALSE

(***************************************************************************)
(* tokenize                                                                *)
(***************************************************************************)
UPPER == <<"A","B","C","D","E","F","G","H","I","J","K","L","M",
           "N","O","P","Q","R","S","T","U","V","W","X","Y","Z">>
LOWER == <<"a","b","c","d","e","f","g","h","i","j","k","l","m",
           "n","o","p","q","r","s","t","u","v","w","x","y","z">>
DIGITS == {"0","1","2","3","4","5","6","7","8","9"}
WHITESPACE == {" ", "\t", "\n"}

STOPWORDS ==
    { <<"t","h","e">>, <<"a">>, <<"a","n">>, <<"a","n","d">>, <<"o","r">>,
      <<"b","u","t">>, <<"i","n">>, <<"o","n">>, <<"a","t">>, <<"t","o">>,
      <<"f","o","r">>, <<"o","f">>, <<"w","i","t","h">>, <<"b","y">>,
      <<"f","r","o","m">>, <<"i","s">>, <<"a","r","e">>, <<"a","m">>,
      <<"b","e">>, <<"b","e","e","n">>, <<"b","e","i","n","g">>,
      <<"t","h","a","t">>, <<"t","h","i","s">>, <<"t","h","e","s","e">>,
      <<"t","h","o","s","e">>, <<"i">>, <<"y","o","u">>, <<"h","e">>,
      <<"s","h","e">>, <<"i","t">>, <<"w","e">>, <<"t","h","e","y">> }

\* str.lower() on one character
LowerChar(c) ==
    IF \E i \in DOMAIN UPPER : UPPER[i] = c
    THEN LOWER[CHOOSE i \in DOMAIN UPPER : UPPER[i] = c]
    ELSE c

\* re.sub(r'[^a-z0-9\s]', ' ', text) on one character
SubChar(c) ==
    IF c \in Range(LOWER) \cup DIGITS \cup WHITESPACE THEN c ELSE " "

\* str.split(): maximal runs of non-whitespace characters
RECURSIVE SplitFrom(_, _)
SplitFrom(s, cur) ==
    IF s = <<>>
    THEN IF cur = <<>> THEN <<>> ELSE <<cur>>
    ELSE IF Head(s) \in WHITESPACE
         THEN (IF cur = <<>> THEN <<>> ELSE <<cur>>) \o SplitFrom(Tail(s), <<>>)
         ELSE SplitFrom(Tail(s), Append(cur, Head(s)))

KeepToken(t) == t # <<>> /\ t \notin STOPWORDS

tokenize(text) ==
    LET lowered == [i \in DOMAIN text |-> LowerChar(text[i])]
        cleaned == [i \in DOMAIN lowered |-> SubChar(lowered[i])]
        tokens == SplitFrom(cleaned, <<>>)
    IN  SelectSeq(tokens, KeepToken)

(***************************************************************************)
(* _index_text: index[token][url].append(position), both levels created   *)
(* on first use (defaultdict).                                             *)
(***************************************************************************)
\* mutant: positions counted from one
AppendPositionFromOne(index, token, url, position) ==
    LET urls == IF token \in DOMAIN index THEN index[token] ELSE EmptyMap
        positions == IF url \in DOMAIN urls THEN urls[url] ELSE <<>>
    IN  Put(index, token, Put(urls, url, Append(positions, position + 1)))

AppendPosition(index, token, url, position) ==
    LET urls == IF token \in DOMAIN index THEN index[token] ELSE EmptyMap
        positions == IF url \in DOMAIN urls THEN urls[url] ELSE <<>>
    IN  Put(index, token, Put(urls, url, Append(positions, position)))

RECURSIVE IndexTokens(_, _, _, _)
IndexTokens(index, tokens, url, i) ==
    IF i > Len(tokens) THEN index
    ELSE IndexTokens(AppendPosition(index, tokens[i], url, i - 1), tokens, url, i + 1)

index_text(text, url, index) == IndexTokens(index, tokenize(text), url, 1)

(***************************************************************************)
(* brand_index[token].add(url) for each token                              *)
(***************************************************************************)
\* mutant: the set of the token is replaced, not extended
AddUrlReplace(index, token, url) == Put(index, token, {url})

AddUrl(index, token, url) ==
    Put(index, token, (IF token \in DOMAIN index THEN index[token] ELSE {}) \cup {url})

RECURSIVE AddTokens(_, _, _)
AddTokens(index, tokens, url) ==
    IF tokens = <<>> THEN index
    ELSE AddTokens(AddUrl(index, Head(tokens), url), Tail(tokens), url)

(***************************************************************************)
(* Review statistics (lines 143-157).  round(sum / len, 2) in hundredths:  *)
(* round-half-to-even of the exact quotient, which is what Python's        *)
(* float round gives for fewer than 40 integer ratings (a tie k/8, k/16,   *)
(* ... is an exact binary fraction).                                       *)
(***************************************************************************)
Round2(total, n) ==
    LET q == (100 * total) \div n
        r == (100 * total) % n
    IN  IF 2 * r < n THEN q
        ELSE IF 2 * r > n THEN q + 1
        ELSE IF q % 2 = 0 THEN q ELSE q + 1

ZeroStats == [total_reviews |-> 0, mean_mark |-> 0, last_rating |-> 0]

\* review.get('rating', 0) on a mapping
RatingOf(review) == IF review.rating.tag = "absent" THEN Num(0) ELSE review.rating

\* the comprehension raises on a review that is no mapping; sum raises on a
\* rating that is no number
ReviewsRaise(items) ==
    \E i \in DOMAIN items :
        \/ items[i].rkind # "map"
        \/ RatingOf(items[i]).tag # "num"

\* mutant: last_rating is the largest rating
ReviewStatsMax(items) ==
    LET ratings == [i \in DOMAIN items |-> RatingOf(items[i]).n]
    IN  [total_reviews |-> Len(items),
         mean_mark |-> Round2(SumSeq(ratings), Len(ratings)),
         last_rating |-> CHOOSE m \in Range(ratings) : \A r \in Range(ratings) : r <= m]

ReviewStats(items) ==
    LET ratings == [i \in DOMAIN items |-> RatingOf(items[i]).n]
    IN  [total_reviews |-> Len(items),
         mean_mark |-> Round2(SumSeq(ratings), Len(ratings)),
         last_rating |-> ratings[Len(ratings)]]

(***************************************************************************)
(* _process_product.  B is the builder: the five indexes, and raised,      *)
(* which is TRUE once an exception left the method (the statements after   *)
(* the raising one are not executed, those before it keep their effect).   *)
(***************************************************************************)
NewBuilder ==
    [title_index |-> EmptyMap, description_index |-> EmptyMap,
     brand_index |-> EmptyMap, origin_index |-> EmptyMap,
     reviews_index |-> EmptyMap, raised |-> FALSE]

Raise(B) == [B EXCEPT !.raised = TRUE]

\* lines 115-117 and 120-122: "if title: self._index_text(title, url, index)";
\* tokenize calls text.lower(), which only a str has
ProcessText(B, field, value, url) ==
    IF B.raised \/ ~Truthy(value) THEN B
    ELSE IF value.tag # "str" THEN Raise(B)
    ELSE [B EXCEPT ![field] = index_text(value.s, url, B[field])]

\* lines 128-133 and 136-141, for a product_features that is a mapping
ProcessFeature(B, field, value, url) ==
    IF B.raised \/ value.tag # "str" \/ value.s = <<>> THEN B
    ELSE [B EXCEPT ![field] = AddTokens(B[field], tokenize(value.s), url)]

\* mutant: the tokens of 'made in' are added to brand_index too
ProcessFeaturesBothToBrand(B, features, url) ==
    IF B.raised \/ features.ftag \in {"absent", "list"} THEN B
    ELSE IF features.ftag = "null" THEN Raise(B)
    ELSE ProcessFeature(ProcessFeature(ProcessFeature(B, "brand_index", features.brand, url),
                                       "brand_index", features.origin, url),
                        "origin_index", features.origin, url)

\* lines 125-141: "'brand' in features" raises on None, and is False on a
\* list that does not hold the key
ProcessFeatures(B, features, url) ==
    IF B.raised \/ features.ftag \in {"absent", "list"} THEN B
    ELSE IF features.ftag = "null" THEN Raise(B)
    ELSE ProcessFeature(ProcessFeature(B, "brand_index", features.brand, url),
                        "origin_index", features.origin, url)

\* lines 144-157
ProcessReviews(B, reviews, url) ==
    IF B.raised THEN B
    ELSE IF reviews.rtag = "list" /\ reviews.items # <<>>
         THEN IF ReviewsRaise(reviews.items) THEN Raise(B)
              ELSE [B EXCEPT !.reviews_index =
                        Put(B.reviews_index, url, ReviewStats(reviews.items))]
         ELSE [B EXCEPT !.reviews_index = Put(B.reviews_index, url, ZeroStats)]

ProcessFields(B, product) ==
    LET url == product.url.s
        B1 == ProcessText(B, "title_index", product.title, url)
        B2 == ProcessText(B1, "description_index", product.description, url)
        B3 == ProcessFeatures(B2, product.features, url)
    IN  ProcessReviews(B3, product.reviews, url)

\* mutant: a record without url is processed like any other
process_product_no_skip(B, product) ==
    IF product.kind # "object" THEN Raise(B)
    ELSE ProcessFields(B, product)

\* product.get raises on a decoded value that is no mapping
process_product(B, product) ==
    IF product.kind # "object" THEN Raise(B)
    ELSE IF ~Truthy(product.url) THEN B
    ELSE ProcessFields(B, product)

\* the body of the loop of process_jsonl (lines 95-101): json.loads raises
\* JSONDecodeError on an undecodable line, and any exception is caught
process_line(B, line) ==
    IF line.kind = "badjson" THEN Raise(B) ELSE process_product(B, line)

\* process_jsonl over a whole file, from an empty builder
RECURSIVE RunFrom(_, _)
RunFrom(B, lines) ==
    IF lines = <<>> THEN B
    ELSE RunFrom([process_line(B, Head(lines)) EXCEPT !.raised = FALSE], Tail(lines))

(***************************************************************************)
(* save_indexes (lines 178-194): the positional indexes are copied, each   *)
(* set of a categorical index becomes list(urls), in an order the set      *)
(* chooses.                                                                *)
(***************************************************************************)
ListsOf(urls) ==
    {l \in [1..Cardinality(urls) -> urls] : \A i, j \in DOMAIN l : l[i] = l[j] => i = j}

ExportsOf(index) ==
    {d \in [DOMAIN index -> UNION {ListsOf(index[t]) : t \in DOMAIN index}] :
        \A t \in DOMAIN index : d[t] \in ListsOf(index[t])}

(***************************************************************************)
(* search_title (lines 246-269).  An index is [shape, dict]: a positional  *)
(* postings entry is a mapping and has keys(), a categorical one is a list *)
(* and has none (AttributeError).                                          *)
(***************************************************************************)
NoResult == [status |-> "none", urls |-> {}]
Returned(urls) == [status |-> "returned", urls |-> urls]
Raised == [status |-> "raised", urls |-> {}]

\* mutant: the candidate set is united with the postings, not intersected
RECURSIVE SearchTokensUnion(_, _, _, _, _)
SearchTokensUnion(tokens, index_dict, i, results, seeded) ==
    IF i > Len(tokens) THEN Returned(results)
    ELSE IF tokens[i] \in DOMAIN index_dict.dict
         THEN IF index_dict.shape # "positional" THEN Raised
              ELSE SearchTokensUnion(tokens, index_dict, i + 1,
                                     results \cup DOMAIN index_dict.dict[tokens[i]], TRUE)
         ELSE Returned({})

\* mutant: the urls of a postings entry are read from a list as from a mapping
RECURSIVE SearchTokensAnyShape(_, _, _, _, _)
SearchTokensAnyShape(tokens, index_dict, i, results, seeded) ==
    IF i > Len(tokens) THEN Returned(results)
    ELSE IF tokens[i] \in DOMAIN index_dict.dict
         THEN LET entry == index_dict.dict[tokens[i]]
                  urls == IF index_dict.shape = "positional" THEN DOMAIN entry
                          ELSE Range(entry)
              IN  SearchTokensAnyShape(tokens, index_dict, i + 1,
                                       IF seeded THEN results \cap urls ELSE urls, TRUE)
         ELSE Returned({})

RECURSIVE SearchTokens(_, _, _, _, _)
SearchTokens(tokens, index_dict, i, results, seeded) ==
    IF i > Len(tokens) THEN Returned(results)
    ELSE IF tokens[i] \in DOMAIN index_dict.dict
         THEN IF index_dict.shape # "positional" THEN Raised
              ELSE LET urls == DOMAIN index_dict.dict[tokens[i]]
                   IN  SearchTokens(tokens, index_dict, i + 1,
                                    IF seeded THEN results \cap urls ELSE urls, TRUE)
         ELSE Returned({})

search_title(query, index_dict) ==
    LET tokens == tokenize(query)
    IN  IF tokens = <<>> THEN Returned({})
        ELSE SearchTokens(tokens, index_dict, 1, {}, FALSE)

(***************************************************************************)
(* Input lines.  A line of the input file is undecodable JSON ("badjson"), *)
(* a JSON value that is no object ("nonobject"), or an object.             *)
(***************************************************************************)
NoFeatures == [ftag |-> "absent", brand |-> Absent, origin |-> Absent]
NullFeatures == [ftag |-> "null", brand |-> Absent, origin |-> Absent]
ListFeatures == [ftag |-> "list", brand |-> Absent, origin |-> Absent]
Features(brand, origin) == [ftag |-> "map", brand |-> brand, origin |-> origin]

NoReviews == [rtag |-> "absent", items |-> <<>>]
NullReviews == [rtag |-> "null", items |-> <<>>]
Reviews(items) == [rtag |-> "list", items |-> items]
Review(rating) == [rkind |-> "map", rating |-> rating]
NonMapReview == [rkind |-> "nonmap", rating |-> Absent]

Object(url, title, description, features, reviews) ==
    [kind |-> "object", url |-> url, title |-> title, description |-> description,
     features |-> features, reviews |-> reviews]
BadJson == [Object(Absent, Absent, Absent, NoFeatures, NoReviews) EXCEPT !.kind = "badjson"]
NonObject == [Object(Absent, Absent, Absent, NoFeatures, NoReviews) EXCEPT !.kind = "nonobject"]

U1 == <<"u", "1">>
U2 == <<"u", "2">>
U3 == <<"u", "3">>
Urls == {U1, U2}

(***************************************************************************)
(* State.                                                                  *)
(***************************************************************************)
VARIABLES input_file, line_num, title_index, description_index, brand_index,
          origin_index, reviews_index, log, pc, files, query, loaded, result

indexes == <<title_index, description_index, brand_index, origin_index, reviews_index>>
vars == <<input_file, line_num, title_index, description_index, brand_index,
          origin_index, reviews_index, log, pc, files, query, loaded, result>>

Builder ==
    [title_index |-> title_index, description_index |-> description_index,
     brand_index |-> brand_index, origin_index |-> origin_index,
     reviews_index |-> reviews_index, raised |-> FALSE]

NoFiles ==
    [title_index |-> EmptyMap, description_index |-> EmptyMap,
     brand_index |-> EmptyMap, origin_index |-> EmptyMap, reviews_index |-> EmptyMap]

IndexFiles == {"title_index", "description_index", "brand_index", "origin_index"}

\* __init__ (lines 35-44), then main() enters process_jsonl
InitWith(inputs) ==
    /\ input_file \in inputs
    /\ line_num = 1
    /\ title_index = EmptyMap
    /\ description_index = EmptyMap
    /\ brand_index = EmptyMap
    /\ origin_index = EmptyMap
    /\ reviews_index = EmptyMap
    /\ log = <<>>
    /\ pc = "process_jsonl"
    /\ files = NoFiles
    /\ query = <<>>
    /\ loaded = "none"
    /\ result = NoResult

\* mutant: the try encloses the loop, so that the first failure ends the batch
ProcessLineAbort ==
    /\ pc = "process_jsonl"
    /\ line_num <= Len(input_file)
    /\ LET line == input_file[line_num]
           B == process_line(Builder, line)
       IN  /\ title_index' = B.title_index
           /\ description_index' = B.description_index
           /\ brand_index' = B.brand_index
           /\ origin_index' = B.origin_index
           /\ reviews_index' = B.reviews_index
           /\ log' = IF B.raised
                     THEN Append(log, [line |-> line_num, msg |-> "Error processing"])
                     ELSE log
           /\ pc' = IF B.raised THEN "save_indexes" ELSE pc
    /\ line_num' = line_num + 1
    /\ UNCHANGED <<input_file, files, query, loaded, result>>

\* one iteration of the loop of process_jsonl (lines 94-101)
ProcessLine ==
    /\ pc = "process_jsonl"
    /\ line_num <= Len(input_file)
    /\ LET line == input_file[line_num]
           B == process_line(Builder, line)
       IN  /\ title_index' = B.title_index
           /\ description_index' = B.description_index
           /\ brand_index' = B.brand_index
           /\ origin_index' = B.origin_index
           /\ reviews_index' = B.reviews_index
           /\ log' = IF line.kind = "badjson"
                     THEN Append(log, [line |-> line_num, msg |-> "JSON Error"])
                     ELSE IF B.raised
                          THEN Append(log, [line |-> line_num, msg |-> "Error processing"])
                          ELSE log
    /\ line_num' = line_num + 1
    /\ UNCHANGED <<input_file, pc, files, query, loaded, result>>

\* the loop ends with the file; process_jsonl returns to main
EndOfFile ==
    /\ pc = "process_jsonl"
    /\ line_num > Len(input_file)
    /\ pc' = "save_indexes"
    /\ UNCHANGED <<input_file, line_num, indexes, log, files, query, loaded, result>>

SaveIndexes ==
    /\ pc = "save_indexes"
    /\ \E b \in ExportsOf(brand_index), o \in ExportsOf(origin_index) :
          files' = [title_index |-> title_index, description_index |-> description_index,
                    brand_index |-> b, origin_index |-> o, reviews_index |-> reviews_index]
    /\ pc' = "saved"
    /\ UNCHANGED <<input_file, line_num, indexes, log, query, loaded, result>>

\* load_index (lines 236-238) of one of the saved files
load_index(name) ==
    [shape |-> IF name \in {"title_index", "description_index"}
               THEN "positional" ELSE "categorical",
     dict |-> files[name]]

Search(queries) ==
    /\ pc = "saved"
    /\ \E q \in queries, name \in IndexFiles :
          /\ query' = q
          /\ loaded' = name
          /\ result' = search_title(q, load_index(name))
    /\ pc' = "searched"
    /\ UNCHANGED <<input_file, line_num, indexes, log, files>>

(***************************************************************************)
(* Input families.  Each specification reads a file of lines drawn from    *)
(* one family; the program is the same.                                    *)
(***************************************************************************)
Reverse(s) == [i \in DOMAIN s |-> s[Len(s) + 1 - i]]

\* the words, joined by single spaces
RECURSIVE Join(_)
Join(words) ==
    IF words = <<>> THEN <<>>
    ELSE IF Len(words) = 1 THEN words[1]
    ELSE words[1] \o <<" ">> \o Join(Tail(words))

Phrases(words, n) == {Join(ws) : ws \in SeqsUpTo(words, n)}

Injective(s) == \A i, j \in DOMAIN s : s[i] = s[j] => i = j

\* the files of at most n lines with pairwise distinct urls
DistinctUrlFiles(Line(_, _), values, n) ==
    UNION {{[i \in DOMAIN us |-> Line(us[i], vs[i])] : vs \in [DOMAIN us -> values]} :
           us \in {s \in SeqsUpTo(Urls, n) : Injective(s)}}

\* free text: a title, and a description that differs from it
TextWords == {<<"a">>, <<"B">>, <<"c", "-", "B">>, <<"T", "h", "e">>}
TextLine(u, t) == Object(Str(u), Str(t), Str(Reverse(t)), NoFeatures, NoReviews)
TextFiles == DistinctUrlFiles(TextLine, Phrases(TextWords, MaxWords), MaxLines)

\* documents to search: the same words as title and as origin
DocWords == {<<"B">>, <<"c">>}
QueryLine(u, t) == Object(Str(u), Str(t), Absent, Features(Absent, Str(t)), NoReviews)
QueryFiles == DistinctUrlFiles(QueryLine, Phrases(DocWords, MaxWords), MaxLines)
Queries == Phrases({<<"a">>, <<"B">>, <<"c">>}, MaxWords)

\* attributes: a brand and an origin, absent, of the wrong shape, empty, or
\* strings that share a token
CatLines ==
    {Object(Str(u), Absent, Absent, Features(b, o), NoReviews) :
        u \in Urls,
        b \in {Absent, Num(5), Str(<<>>), Str(<<"B">>), Str(<<"a", " ", "B", " ", "B">>)},
        o \in {Absent, Str(<<"c">>), Str(<<"B", " ", "c">>)}}

\* reviews with a rating or none
ReviewItems == {Review(Absent)} \cup {Review(Num(r)) : r \in 1..MaxRating}
ReviewLines ==
    {Object(Str(u), Absent, Absent, NoFeatures, r) :
        u \in Urls,
        r \in {NoReviews, NullReviews} \cup {Reviews(l) : l \in SeqsUpTo(ReviewItems, MaxReviews)}}

\* every field well-formed or of the wrong shape
MixedLines ==
    {Object(u, t, d, f, r) :
        u \in {Absent, Null, Str(<<>>), Str(U1), Str(U2)},
        t \in {Str(<<"B">>), Num(5)},
        d \in {Str(<<"c">>), Num(5)},
        f \in {Features(Str(<<"B">>), Str(<<"c">>)), Features(Num(5), Str(<<"c">>)),
               Features(Str(<<"B">>), Num(5)), NullFeatures, ListFeatures},
        r \in {NoReviews, Reviews(<<Review(Num(1))>>), Reviews(<<NonMapReview>>),
               Reviews(<<Review(Str(<<"x">>))>>)}}

\* a batch of well-formed documents with failing lines among them
DocLines ==
    {Object(Str(u), Str(d[1]), Absent, d[2], d[3]) :
        u \in {U1, U2, U3},
        d \in {<<<<"B">>, NoFeatures, Reviews(<<Review(Num(2)), Review(Num(1))>>)>>,
               <<<<"c", " ", "B">>, Features(Str(<<"B">>), Str(<<"c">>)), NoReviews>>,
               <<<<"B", " ", "B">>, Features(Str(<<"c">>), Absent),
                 Reviews(<<Review(Absent)>>)>>}}
FailingLines ==
    {BadJson, NonObject,
     Object(Str(U1), Num(5), Str(<<"c">>), NoFeatures, NoReviews),
     Object(Str(U3), Str(<<"c">>), Absent, NoFeatures, Reviews(<<NonMapReview>>))}
BatchLines == DocLines \cup FailingLines

SearchQuery == Search(Queries)

Next == ProcessLine \/ EndOfFile \/ SaveIndexes
NextQuery == ProcessLine \/ EndOfFile \/ SaveIndexes \/ SearchQuery

Init == InitWith(SeqsUpTo(MixedLines, MaxRecords))
InitText == InitWith(TextFiles)
InitQuery == InitWith(QueryFiles)
InitCat == InitWith(SeqsUpTo(CatLines, MaxLines))
InitReviews == InitWith(SeqsUpTo(ReviewLines, MaxRecords))
InitBatch == InitWith(SeqsUpTo(BatchLines, MaxBatch))

Spec == Init /\ [][Next]_vars
SpecText == InitText /\ [][Next]_vars
SpecQuery == InitQuery /\ [][NextQuery]_vars
SpecCat == InitCat /\ [][Next]_vars
SpecReviews == InitReviews /\ [][Next]_vars
SpecBatch == InitBatch /\ [][Next]_vars

(***************************************************************************)
(* Properties                                                              *)
(***************************************************************************)
Processed == SubSeq(input_file, 1, line_num - 1)

Positional == {"title_index", "description_index"}
Categorical == {"brand_index", "origin_index"}

\* the urls listed under token t of an index of either shape
UrlsUnder(index_dict, t) ==
    IF index_dict.shape = "positional" THEN DOMAIN index_dict.dict[t]
    ELSE Range(index_dict.dict[t])

\* the documents that have a postings entry under every token of the query
Matching(q, index_dict) ==
    LET tokens == tokenize(q)
    IN  IF tokens = <<>> \/ \E i \in DOMAIN tokens : tokens[i] \notin DOMAIN index_dict.dict
        THEN {}
        ELSE {u \in UNION {UrlsUnder(index_dict, t) : t \in DOMAIN index_dict.dict} :
                 \A i \in DOMAIN tokens : u \in UrlsUnder(index_dict, tokens[i])}

\* C1: over a positional index, search_title returns exactly the urls that have a
\* postings entry under every token of tokenize(query), and the empty result when
\* the query has no token or one of its tokens is not a key of the index.
C1_SearchIsConjunction ==
    (pc = "searched" /\ loaded \in Positional)
        => result = Returned(Matching(query, load_index(loaded)))

\* a two-token query that one document matches and another, which has the first
\* token only, does not
C1_Witness ==
    /\ pc = "searched"
    /\ loaded = "title_index"
    /\ Len(tokenize(query)) = 2
    /\ tokenize(query)[1] # tokenize(query)[2]
    /\ result = Returned({U1})
    /\ U2 \in DOMAIN files.title_index[tokenize(query)[1]]

HasUrl(line) == line.kind = "object" /\ Truthy(line.url)

\* the line is reported: json.loads or _process_product raised on it
Failing(line) == process_line(NewBuilder, line).raised

DistinctUrls(lines) ==
    \A i, j \in DOMAIN lines :
        (i # j /\ HasUrl(lines[i]) /\ HasUrl(lines[j])) => lines[i].url # lines[j].url

\* the zero-based places of token t in a sequence of tokens
Places(tokens, t) == {i \in 0..(Len(tokens) - 1) : tokens[i + 1] = t}

StrictlyIncreasing(l) == \A i, j \in DOMAIN l : i < j => l[i] < l[j]

\* index holds, for the field value of one document, exactly its positions
PositionsOf(index, value, u) ==
    LET tokens == IF value.tag = "str" THEN tokenize(value.s) ELSE <<>>
    IN  \A t \in (DOMAIN index) \cup Range(tokens) :
            LET has == t \in DOMAIN index /\ u \in DOMAIN index[t]
            IN  /\ has <=> Places(tokens, t) # {}
                /\ has => /\ StrictlyIncreasing(index[t][u])
                          /\ Range(index[t][u]) = Places(tokens, t)

\* C6: after a batch of records with pairwise distinct urls, title_index[t][u]
\* (resp. description_index[t][u]) exists exactly when t occurs in the tokenized
\* title (description) of u, and is then the strictly increasing list of its
\* zero-based places, counted after stopword removal: "a B" puts b at 0.
C6_PositionsOfTokens ==
    DistinctUrls(Processed) =>
        /\ \A i \in DOMAIN Processed :
              LET line == Processed[i]
              IN  /\ PositionsOf(title_index, line.title, line.url.s)
                  /\ PositionsOf(description_index, line.description, line.url.s)
                  /\ line.title = Str(<<"a", " ", "B">>)
                        => title_index[<<"b">>][line.url.s] = <<0>>
        /\ \A t \in DOMAIN title_index : \A u \in DOMAIN title_index[t] :
              \E i \in DOMAIN Processed : Processed[i].url.s = u
        /\ \A t \in DOMAIN description_index : \A u \in DOMAIN description_index[t] :
              \E i \in DOMAIN Processed : Processed[i].url.s = u

\* two documents: a token twice in one title, after a word that punctuation
\* splits, and a stopword before it in the other
C6_Witness ==
    /\ pc = "saved"
    /\ Len(input_file) = 2
    /\ input_file[1].url = Str(U1)
    /\ input_file[1].title = Str(<<"c", "-", "B", " ", "B">>)
    /\ input_file[2].url = Str(U2) /\ input_file[2].title = Str(<<"a", " ", "B">>)
    /\ title_index[<<"b">>] = [u \in {U1, U2} |-> IF u = U1 THEN <<1, 2>> ELSE <<0>>]

\* the tokens of a field value that is a non-empty string
FieldTokens(value) == IF value.tag = "str" THEN Range(tokenize(value.s)) ELSE {}

NoRepeat(l) == \A i, j \in DOMAIN l : l[i] = l[j] => i = j

\* what C10 says of one categorical index, its source field and its export
CategoricalOf(index, field, export) ==
    /\ \A t \in DOMAIN index : \A u \in index[t] :
          \E i \in DOMAIN Processed :
              /\ HasUrl(Processed[i]) /\ Processed[i].url.s = u
              /\ Processed[i].features.ftag = "map"
              /\ t \in FieldTokens(Processed[i].features[field])
    /\ \A i \in DOMAIN Processed :
          (HasUrl(Processed[i]) /\ ~Failing(Processed[i])
                                  /\ Processed[i].features.ftag = "map")
              => \A t \in FieldTokens(Processed[i].features[field]) :
                    t \in DOMAIN index /\ Processed[i].url.s \in index[t]
    /\ pc = "saved" =>
          /\ DOMAIN export = DOMAIN index
          /\ \A t \in DOMAIN export : NoRepeat(export[t]) /\ Range(export[t]) = index[t]

\* C10: u is in brand_index[t] (origin_index[t]) only if a processed record of
\* url u had a string brand ('made in') whose tokens include t, and every such
\* token is added; the exported list of a token holds each of its urls once.
C10_CategoricalMembership ==
    /\ CategoricalOf(brand_index, "brand", files.brand_index)
    /\ CategoricalOf(origin_index, "origin", files.origin_index)

\* the same record twice, its brand repeating a token
C10_Witness ==
    /\ pc = "saved"
    /\ Len(input_file) = 2
    /\ input_file[1] = input_file[2]
    /\ input_file[1].url = Str(U1)
    /\ input_file[1].features.brand = Str(<<"a", " ", "B", " ", "B">>)
    /\ input_file[1].features.origin = Str(<<"B", " ", "c">>)
    /\ files.brand_index = [t \in {<<"b">>} |-> <<U1>>]

\* the last processed line of url u that went through _process_product
LastOf(u) ==
    LET is == {i \in DOMAIN Processed : /\ HasUrl(Processed[i]) /\ Processed[i].url.s = u
                                        /\ ~Failing(Processed[i])}
    IN  Processed[CHOOSE i \in is : \A j \in is : j <= i]

NumberOf(review) == IF review.rating.tag = "num" THEN review.rating.n ELSE 0

Abs(x) == IF x < 0 THEN -x ELSE x

\* C7: for n >= 1 review mappings the stored record has total_reviews = n,
\* mean_mark = the average rating (a missing rating is 0) to the nearest
\* hundredth, and last_rating = the rating of the last review, not the largest;
\* for an absent or empty list the three values are 0 (of the last record of
\* the url that was processed without an error).
C7_ReviewStats ==
    \A u \in DOMAIN reviews_index :
        LET items == LastOf(u).reviews.items
            n == Len(items)
            total == SumSeq([i \in DOMAIN items |-> NumberOf(items[i])])
            stats == reviews_index[u]
        IN  IF n >= 1
            THEN /\ stats.total_reviews = n
                 /\ 2 * Abs(100 * total - stats.mean_mark * n) <= n
                 /\ stats.last_rating = NumberOf(items[n])
            ELSE stats = [total_reviews |-> 0, mean_mark |-> 0, last_rating |-> 0]

\* ratings 2, 1, 1: the mean 1.33 is rounded, the last rating is not the largest
C7_Witness ==
    /\ line_num = 2
    /\ input_file[1].url = Str(U1)
    /\ input_file[1].reviews = Reviews(<<Review(Num(2)), Review(Num(1)), Review(Num(1))>>)
    /\ reviews_index = [u \in {U1} |->
                           [total_reviews |-> 3, mean_mark |-> 133, last_rating |-> 1]]

(***************************************************************************)
(* Well-formed fields.                                                     *)
(***************************************************************************)
TextOk(value) == value.tag \in {"str", "absent"}

FeaturesOk(features) ==
    /\ features.ftag \in {"map", "absent"}
    /\ TextOk(features.brand)
    /\ TextOk(features.origin)

ReviewsOk(reviews) ==
    /\ reviews.rtag \in {"list", "absent"}
    /\ \A i \in DOMAIN reviews.items :
          /\ reviews.items[i].rkind = "map"
          /\ reviews.items[i].rating.tag \in {"num", "absent"}

WellFormed(line) ==
    /\ HasUrl(line)
    /\ TextOk(line.title) /\ TextOk(line.description)
    /\ FeaturesOk(line.features) /\ ReviewsOk(line.reviews)

\* the record without its fields of the wrong shape
WithoutMalformed(line) ==
    [line EXCEPT
        !.title = IF TextOk(@) THEN @ ELSE Absent,
        !.description = IF TextOk(@) THEN @ ELSE Absent,
        !.features = IF @.ftag \notin {"map", "absent"} THEN NoFeatures
                     ELSE [@ EXCEPT !.brand = IF TextOk(@) THEN @ ELSE Absent,
                                    !.origin = IF TextOk(@) THEN @ ELSE Absent],
        !.reviews = IF ReviewsOk(@) THEN @ ELSE NoReviews]

\* C3: a field of the wrong shape is skipped alone: the other fields of the
\* record are indexed exactly as if the malformed field were absent (the review
\* statistics too, when the reviews are well-formed).
C3_OnlyTheFieldIsSkipped ==
    (line_num = 2 /\ HasUrl(input_file[1])) =>
        LET line == input_file[1]
            B == process_product(NewBuilder, WithoutMalformed(line))
        IN  /\ title_index = B.title_index
            /\ description_index = B.description_index
            /\ brand_index = B.brand_index
            /\ origin_index = B.origin_index
            /\ ReviewsOk(line.reviews) => reviews_index = B.reviews_index

\* C4: reviews_index has exactly one entry for every processed record that had a
\* non-empty url, and no other entry.
C4_OneEntryPerUrl ==
    DOMAIN reviews_index =
        {Processed[i].url.s : i \in {j \in DOMAIN Processed : HasUrl(Processed[j])}}

\* C5: ingesting a record whose url is absent or empty changes none of the five
\* structures and raises no error, whatever its other fields hold.
C5_NoUrlNoEffect ==
    [][(/\ pc = "process_jsonl"
        /\ line_num <= Len(input_file)
        /\ input_file[line_num].kind = "object"
        /\ ~Truthy(input_file[line_num].url))
          => (indexes' = indexes /\ log' = log)]_vars

\* a record without url, with a title of the wrong shape and a review
C5_Witness ==
    /\ line_num = 2
    /\ input_file[1].url = Absent
    /\ input_file[1].title = Num(5)
    /\ input_file[1].reviews = Reviews(<<Review(Num(1))>>)
    /\ reviews_index = EmptyMap
    /\ log = <<>>

(***************************************************************************)
(* Batches.                                                                *)
(***************************************************************************)
Permuted(lines, p) == [i \in DOMAIN lines |-> lines[p[i]]]

IndexesOf(B) ==
    <<B.title_index, B.description_index, B.brand_index, B.origin_index, B.reviews_index>>

\* C8: a batch of well-formed records with pairwise distinct urls gives the
\* same five structures in every order.
C8_OrderInsensitive ==
    ((\A i \in DOMAIN Processed : WellFormed(Processed[i])) /\ DistinctUrls(Processed))
        => \A p \in Perms(Len(Processed)) :
              IndexesOf(RunFrom(NewBuilder, Permuted(Processed, p))) = indexes

\* three documents of distinct urls that share tokens, a brand and reviews
C8_Witness ==
    /\ pc = "saved"
    /\ Len(input_file) = 3
    /\ \A i \in 1..3 : WellFormed(input_file[i])
    /\ DistinctUrls(input_file)
    /\ <<"b">> \in DOMAIN title_index /\ Cardinality(DOMAIN title_index[<<"b">>]) = 3
    /\ <<"b">> \in DOMAIN brand_index /\ Cardinality(brand_index[<<"b">>]) >= 2
    /\ \E u \in DOMAIN reviews_index : reviews_index[u].total_reviews = 2

\* the last processed well-formed line of url u
LastWellFormedOf(u) ==
    LET is == {i \in DOMAIN Processed : WellFormed(Processed[i]) /\ Processed[i].url.s = u}
    IN  Processed[CHOOSE i \in is : \A j \in is : j <= i]

\* what a well-formed record contributes is in the indexes
Contributed(line) ==
    LET u == line.url.s
        InPositional(index, value) ==
            \A t \in FieldTokens(value) :
                /\ t \in DOMAIN index /\ u \in DOMAIN index[t]
                /\ Places(tokenize(value.s), t) \subseteq Range(index[t][u])
        InCategorical(index, value) ==
            \A t \in FieldTokens(value) : t \in DOMAIN index /\ u \in index[t]
    IN  /\ InPositional(title_index, line.title)
        /\ InPositional(description_index, line.description)
        /\ InCategorical(brand_index, line.features.brand)
        /\ InCategorical(origin_index, line.features.origin)
        /\ u \in DOMAIN reviews_index
        /\ reviews_index[u].total_reviews = Len(LastWellFormedOf(u).reviews.items)

====
